---- MODULE Spec2Model ----
(***************************************************************************)
(* Model of the morabets5 odds pipeline.                                   *)
(*                                                                         *)
(*   SpecCache    the slot cache (universal_cache.py) and its callers in   *)
(*                bets4app.py (get_player_props_for_league)                *)
(*   SpecClient   the resilient fetch client (odds_client_ncaa._get_json)  *)
(*   SpecAdapter  the league adapters' per-event worker pool               *)
(*   SpecNovig    novig.novig_two_way over a sample of American odds       *)
(*   SpecGroup    matchups.group_props_by_matchup over lists of Props      *)
(*   SpecEnrich   the enrichment of one Prop (bets4app, odds_api)          *)
(*   SpecStore    the two storage backends of cache_ttl / universal_cache, *)
(*                run side by side on one sequence of operations           *)
(*   SpecSlots    the slot cache with all writers and concurrent callers   *)
(*   SpecCounters the hit, miss and set counters of cache_ttl under threads *)
(*                                                                         *)
(* The wall clock is modelled at one-second resolution; probabilities are  *)
(* exact rationals.                                                        *)
(***************************************************************************)
EXTENDS Integers, Sequences, FiniteSets, TLC

\* slot cache and its callers
VARIABLES now, mem, cpc, ccall, hist, ncalls, fetches, cap, lg
\* resilient fetch client
VARIABLES apikey, kpc, attempt, delay_ms, last_err, sleeps, resps, kresult, quota
\* one call of a league adapter fetch
VARIABLES akey, aleague, events, apc, task, collected, midx, all_props, aresult
\* one call of novig_two_way
VARIABLES nv_over, nv_under, npc, nres
\* runs of group_props_by_matchup over one list of Props
VARIABLES gleague, gprops, gcache, gout, ghist
\* the enrichment of one Prop
VARIABLES eprop, eprov, emin, efn, eout
\* a process with the distributed store configured and one without
VARIABLES smodule, sclock, sops, redis_db, mem_a, mem_b, sgot
\* the counters of cache_ttl and the threads that call its get and setex
VARIABLES c_hits, c_miss, c_sets, wpc, wop, wreg, wstarted, gets_done, setex_done

cacheVars == <<now, mem, cpc, ccall, hist, ncalls, fetches, cap, lg>>
clientVars == <<apikey, kpc, attempt, delay_ms, last_err, sleeps, resps, kresult, quota>>
adapterVars == <<akey, aleague, events, apc, task, collected, midx, all_props, aresult>>

novigVars == <<nv_over, nv_under, npc, nres>>

coreVars == <<cacheVars, clientVars, adapterVars>>
groupVars == <<gleague, gprops, gcache, gout, ghist>>
enrichVars == <<eprop, eprov, emin, efn, eout>>
storeVars == <<smodule, sclock, sops, redis_db, mem_a, mem_b, sgot>>
countVars == <<c_hits, c_miss, c_sets, wpc, wop, wreg, wstarted, gets_done, setex_done>>
otherVars == <<novigVars, groupVars, enrichVars, storeVars, countVars>>
exceptNovig == <<coreVars, groupVars, enrichVars, storeVars, countVars>>
exceptGroup == <<coreVars, novigVars, enrichVars, storeVars, countVars>>
exceptEnrich == <<coreVars, novigVars, groupVars, storeVars, countVars>>
exceptStore == <<coreVars, novigVars, groupVars, enrichVars, countVars>>
exceptCount == <<coreVars, novigVars, groupVars, enrichVars, storeVars>>

vars == <<coreVars, otherVars>>

(***************************************************************************)
(* Bounds of the model.                                                    *)
(***************************************************************************)
MaxCalls == 3

(***************************************************************************)
(* Slot cache: universal_cache.py                                          *)
(***************************************************************************)
DAY == 24 * 3600
SLOT_MORNING == 8
SLOT_AFTERNOON == 13
SLOT_NIGHT == 18
TTL_FLOOR == 60

Max(a, b) == IF a >= b THEN a ELSE b
Min(a, b) == IF a <= b THEN a ELSE b

DateOf(t) == t \div DAY
HourOf(t) == (t % DAY) \div 3600
Midnight(t) == DateOf(t) * DAY

\* current_slot(dt): the slot name and the next boundary
current_slot(dt) ==
    LET h == HourOf(dt) IN
    IF h < SLOT_MORNING
    THEN [slot |-> "night", next_b |-> Midnight(dt) + SLOT_MORNING * 3600]
    ELSE IF h < SLOT_AFTERNOON
    THEN [slot |-> "morning", next_b |-> Midnight(dt) + SLOT_AFTERNOON * 3600]
    ELSE IF h < SLOT_NIGHT
    THEN [slot |-> "afternoon", next_b |-> Midnight(dt) + SLOT_NIGHT * 3600]
    ELSE [slot |-> "night", next_b |-> Midnight(dt + DAY) + SLOT_MORNING * 3600]

ttl_no_floor(next_boundary, t) == next_boundary - t

\* _ttl_to_next_boundary(next_boundary), the clock read being t
ttl_to_next_boundary(next_boundary, t) == Max(next_boundary - t, TTL_FLOOR)

\* slot_key(namespace, league, suffix), the clock read being t
slot_key(namespace, league, suffix, t) ==
    <<namespace, league, DateOf(t), current_slot(t).slot, suffix>>

NoValue == [ver |-> 0, ha |-> 0, empty |-> FALSE]

get_json_inverted(store, key, t) ==
    IF key \in DOMAIN store /\ store[key].exp < t THEN store[key].val ELSE NoValue

\* get_json(key) at time t: the stored value of a live record, else None
get_json(store, key, t) ==
    IF key \in DOMAIN store /\ store[key].exp > t THEN store[key].val ELSE NoValue

\* set_json(key, value) with ttl_seconds omitted, at time t
set_json(store, key, value, t) ==
    LET ttl == ttl_to_next_boundary(current_slot(t).next_b, t)
    IN  (key :> [exp |-> t + ttl, val |-> value]) @@ store

Leagues == {"mlb", "nfl"}
Callers == {"c1", "c2"}
\* the clock values the model samples: either side of each boundary of day 0,
\* the last minute before 08:00, either side of midnight, 08:00 of day 1
Instants ==
    {7 * 3600, SLOT_MORNING * 3600 - 30, SLOT_MORNING * 3600, SLOT_AFTERNOON * 3600,
     SLOT_NIGHT * 3600, 23 * 3600 + 1800, DAY + 1800, DAY + SLOT_MORNING * 3600}

NoCall ==
    [league |-> "", forced |-> FALSE, cron |-> FALSE, key |-> <<>>, t0 |-> 0,
     hadLive |-> FALSE]

\* the last two completed calls (history of the run, read by the properties)
Push2(s, e) == IF Len(s) < 2 THEN Append(s, e) ELSE <<s[2], e>>

UseCacheAlways(nocache) == TRUE

\* get_player_props_for_league: "if nocache: fetch and set_json, else get_or_set_slot"
UseCache(nocache) == ~nocache

\* the lookahead window, in hours, of the fetch a writer of ("props", league)
\* runs: fetch_nfl_player_props(hours_ahead=96) on the nocache path, the
\* fetcher's default on the miss path and in cron_prewarm
hours_ahead(league, nocache, cron) ==
    IF league = "nfl" /\ nocache /\ ~cron THEN 96 ELSE 48

\* the client is idle while the cache is exercised
ClientIdle ==
    /\ apikey = TRUE
    /\ kpc = "idle"
    /\ attempt = 0
    /\ delay_ms = 0
    /\ last_err = [tag |-> "none", n |-> 0]
    /\ sleeps = <<>>
    /\ resps = <<>>
    /\ kresult = ""
    /\ quota = "none"

NovigIdle ==
    /\ nv_over = 0
    /\ nv_under = 0
    /\ npc = "idle"
    /\ nres = <<>>

GroupIdle ==
    /\ gleague = "nfl"
    /\ gprops = <<>>
    /\ gcache = [kind |-> "none", games |-> <<>>]
    /\ gout = <<>>
    /\ ghist = <<>>

EnrichIdle ==
    /\ eprop = <<>>
    /\ eprov = <<>>
    /\ emin = 0
    /\ efn = "idle"
    /\ eout = <<>>

StoreIdle ==
    /\ smodule = "cache_ttl"
    /\ sclock = 0
    /\ sops = 0
    /\ redis_db = <<>>
    /\ mem_a = <<>>
    /\ mem_b = <<>>
    /\ sgot = <<>>

Threads == {"t1", "t2"}

CountIdle ==
    /\ c_hits = 0 /\ c_miss = 0 /\ c_sets = 0
    /\ wpc = [th \in Threads |-> "idle"]
    /\ wop = [th \in Threads |-> ""]
    /\ wreg = [th \in Threads |-> 0]
    /\ wstarted = 0
    /\ gets_done = 0 /\ setex_done = 0

OthersIdle == NovigIdle /\ GroupIdle /\ EnrichIdle /\ StoreIdle /\ CountIdle

CacheIdle ==
    /\ now = 0 /\ mem = <<>> /\ cpc = [c \in Callers |-> "idle"]
    /\ ccall = [c \in Callers |-> NoCall] /\ hist = <<>>
    /\ ncalls = 0 /\ fetches = 0 /\ cap = 0 /\ lg = "nfl"

AdapterIdle ==
    /\ akey = TRUE
    /\ aleague = "nfl"
    /\ events = <<>>
    /\ apc = "idle"
    /\ task = <<>>
    /\ collected = {}
    /\ midx = 0
    /\ all_props = <<>>
    /\ aresult = <<>>

InitCache ==
    /\ now = 7 * 3600
    /\ mem = <<>>
    /\ cpc = [c \in Callers |-> "idle"]
    /\ ccall = [c \in Callers |-> NoCall]
    /\ hist = <<>>
    /\ ncalls = 0
    /\ fetches = 0
    /\ cap = 1
    /\ lg \in Leagues
    /\ ClientIdle
    /\ AdapterIdle
    /\ OthersIdle

InFlight == {c \in Callers : cpc[c] # "idle"}

\* the wall clock advances (while a call is still to come or in flight)
Tick ==
    /\ ncalls < MaxCalls \/ InFlight # {}
    /\ \E t \in Instants : t > now /\ now' = t
    /\ UNCHANGED <<mem, cpc, ccall, hist, ncalls, fetches, cap, lg>>
    /\ UNCHANGED <<clientVars, adapterVars, otherVars>>

\* get_player_props_for_league(league, nocache=forced) up to the return of a
\* cache hit or the start of the league fetcher
Request(c, league, forced) ==
    /\ cpc[c] = "idle"
    /\ ncalls < MaxCalls
    /\ Cardinality(InFlight) < cap
    /\ ncalls' = ncalls + 1
    /\ LET k == slot_key("props", league, "", now)
           cached == get_json(mem, k, now)
       IN  IF ~UseCache(forced)
           THEN /\ cpc' = [cpc EXCEPT ![c] = "fetching"]
                /\ ccall' = [ccall EXCEPT ![c] =
                       [league |-> league, forced |-> TRUE, cron |-> FALSE,
                        key |-> <<>>, t0 |-> now, hadLive |-> cached # NoValue]]
                /\ UNCHANGED hist
           ELSE IF cached # NoValue
           THEN /\ hist' = Push2(hist,
                       [league |-> league, forced |-> forced, cron |-> FALSE,
                        ok |-> TRUE,
                        t0 |-> now, t1 |-> now, fetched |-> FALSE, ret |-> cached,
                        key |-> k, stored |-> FALSE, ttl |-> 0, hadLive |-> TRUE])
                /\ UNCHANGED <<cpc, ccall>>
           ELSE /\ cpc' = [cpc EXCEPT ![c] = "fetching"]
                /\ ccall' = [ccall EXCEPT ![c] =
                       [league |-> league, forced |-> forced, cron |-> FALSE,
                        key |-> k, t0 |-> now, hadLive |-> FALSE]]
                /\ UNCHANGED hist
    /\ UNCHANGED <<now, mem, fetches, cap, lg>>
    /\ UNCHANGED <<clientVars, adapterVars, otherVars>>

\* cron_prewarm for one league, up to the start of the league fetcher: it
\* fetches whatever the cache holds and stores under the key current at the store
Prewarm(c, league) ==
    /\ cpc[c] = "idle"
    /\ ncalls < MaxCalls
    /\ Cardinality(InFlight) < cap
    /\ ncalls' = ncalls + 1
    /\ cpc' = [cpc EXCEPT ![c] = "fetching"]
    /\ ccall' = [ccall EXCEPT ![c] =
           [league |-> league, forced |-> TRUE, cron |-> TRUE, key |-> <<>>,
            t0 |-> now,
            hadLive |-> get_json(mem, slot_key("props", league, "", now), now) # NoValue]]
    /\ UNCHANGED <<now, mem, hist, fetches, cap, lg>>
    /\ UNCHANGED <<clientVars, adapterVars, otherVars>>

\* the league fetcher returns; the caller stores and returns the fresh value:
\* set_json(k, data) of get_or_set_slot, set_json(slot_key(...), props) when forced
FetchReturn(c) ==
    /\ cpc[c] = "fetching"
    /\ LET cl == ccall[c]
           data == [ver |-> fetches + 1,
                    ha |-> hours_ahead(cl.league, cl.forced, cl.cron),
                    empty |-> FALSE]
           k == IF cl.key = <<>> THEN slot_key("props", cl.league, "", now) ELSE cl.key
           store == set_json(mem, k, data, now)
       IN  /\ mem' = store
           /\ hist' = Push2(hist,
                  [league |-> cl.league, forced |-> cl.forced, cron |-> cl.cron,
                   ok |-> TRUE,
                   t0 |-> cl.t0, t1 |-> now, fetched |-> TRUE, ret |-> data,
                   key |-> k, stored |-> TRUE, ttl |-> store[k].exp - now,
                   hadLive |-> cl.hadLive])
    /\ fetches' = fetches + 1
    /\ cpc' = [cpc EXCEPT ![c] = "idle"]
    /\ ccall' = [ccall EXCEPT ![c] = NoCall]
    /\ UNCHANGED <<now, ncalls, cap, lg>>
    /\ UNCHANGED <<clientVars, adapterVars, otherVars>>

\* the league fetcher raises: nothing is stored and the call fails
FetchRaise(c) ==
    /\ cpc[c] = "fetching"
    /\ LET cl == ccall[c]
       IN  hist' = Push2(hist,
                  [league |-> cl.league, forced |-> cl.forced, cron |-> cl.cron,
                   ok |-> FALSE,
                   t0 |-> cl.t0, t1 |-> now, fetched |-> TRUE, ret |-> NoValue,
                   key |-> <<>>, stored |-> FALSE, ttl |-> 0, hadLive |-> cl.hadLive])
    /\ fetches' = fetches + 1
    /\ cpc' = [cpc EXCEPT ![c] = "idle"]
    /\ ccall' = [ccall EXCEPT ![c] = NoCall]
    /\ UNCHANGED <<now, mem, ncalls, cap, lg>>
    /\ UNCHANGED <<clientVars, adapterVars, otherVars>>

NextCache ==
    \/ Tick
    \/ \E c \in Callers, f \in BOOLEAN : Request(c, lg, f)
    \/ \E c \in Callers : FetchReturn(c)
    \/ \E c \in Callers : FetchRaise(c)

SpecCache == InitCache /\ [][NextCache]_vars

\* the fetcher could not obtain upstream data and returns the empty list: the
\* MLB fetcher without credentials or after a failed events request, the pooled
\* adapters when every event task failed. The caller stores and returns it.
EmptyList(league, nocache, cron) ==
    [ver |-> 0 - 1, ha |-> hours_ahead(league, nocache, cron), empty |-> TRUE]

FetchEmpty(c) ==
    /\ cpc[c] = "fetching"
    /\ LET cl == ccall[c]
           data == EmptyList(cl.league, cl.forced, cl.cron)
           k == IF cl.key = <<>> THEN slot_key("props", cl.league, "", now) ELSE cl.key
           store == set_json(mem, k, data, now)
       IN  /\ mem' = store
           /\ hist' = Push2(hist,
                  [league |-> cl.league, forced |-> cl.forced, cron |-> cl.cron,
                   ok |-> TRUE,
                   t0 |-> cl.t0, t1 |-> now, fetched |-> TRUE, ret |-> data,
                   key |-> k, stored |-> TRUE, ttl |-> store[k].exp - now,
                   hadLive |-> cl.hadLive])
    /\ fetches' = fetches + 1
    /\ cpc' = [cpc EXCEPT ![c] = "idle"]
    /\ ccall' = [ccall EXCEPT ![c] = NoCall]
    /\ UNCHANGED <<now, ncalls, cap, lg>>
    /\ UNCHANGED <<clientVars, adapterVars, otherVars>>

\* the clock values sampled with all writers at work: 08:00, the last minute
\* of the afternoon, and ten seconds into the evening
SlotInstants ==
    {SLOT_MORNING * 3600, SLOT_NIGHT * 3600 - 30, SLOT_NIGHT * 3600 + 10}

SlotTick ==
    /\ ncalls < MaxCalls \/ InFlight # {}
    /\ \E t \in SlotInstants : t > now /\ now' = t
    /\ UNCHANGED <<mem, cpc, ccall, hist, ncalls, fetches, cap, lg>>
    /\ UNCHANGED <<clientVars, adapterVars, otherVars>>

\* the slot cache with all its writers and two concurrent callers
InitSlots ==
    /\ now = 7 * 3600
    /\ mem = <<>>
    /\ cpc = [c \in Callers |-> "idle"]
    /\ ccall = [c \in Callers |-> NoCall]
    /\ hist = <<>>
    /\ ncalls = 0
    /\ fetches = 0
    /\ cap = Cardinality(Callers)
    /\ lg \in Leagues
    /\ ClientIdle
    /\ AdapterIdle
    /\ OthersIdle

NextSlots ==
    \/ SlotTick
    \/ \E c \in Callers, f \in BOOLEAN : Request(c, lg, f)
    \/ \E c \in Callers : Prewarm(c, lg)
    \/ \E c \in Callers : FetchReturn(c)
    \/ \E c \in Callers : FetchEmpty(c)
    \/ \E c \in Callers : FetchRaise(c)

SpecSlots == InitSlots /\ [][NextSlots]_vars

(***************************************************************************)
(* Properties of the slot cache                                            *)
(***************************************************************************)
\* no day-part boundary (08:00, 13:00, 18:00) lies in (a, b]: the day-part of a,
\* the night running from 18:00 through midnight to 08:00
SameDayPart(a, b) ==
    /\ a <= b
    /\ \A d \in 0 .. DateOf(b) + 1 :
         \A h \in {SLOT_MORNING, SLOT_AFTERNOON, SLOT_NIGHT} :
             ~(a < d * DAY + h * 3600 /\ d * DAY + h * 3600 <= b)

SameDate(a, b) == DateOf(a) = DateOf(b)

\* seconds from t to the next day-part boundary after t
Remaining(t) ==
    LET bs == {d * DAY + h * 3600 : d \in 0 .. DateOf(t) + 1,
                                    h \in {SLOT_MORNING, SLOT_AFTERNOON, SLOT_NIGHT}}
        later == {b \in bs : b > t}
    IN  (CHOOSE b \in later : \A x \in later : b <= x) - t

\* two successive completed calls for one league, neither a forced refresh, the
\* first returning normally
SequentialPair ==
    /\ Len(hist) = 2
    /\ hist[1].league = hist[2].league
    /\ ~hist[1].forced /\ ~hist[2].forced
    /\ hist[1].ok
    /\ hist[1].t1 <= hist[2].t0

C6_Original ==
    \A i \in 1 .. Len(hist) :
        hist[i].stored =>
            /\ hist[i].ttl <= Remaining(hist[i].t1)
            /\ hist[i].ttl >= TTL_FLOOR

\* C6 amended: every default-TTL store has a TTL of at least the floor (60 s); the
\* TTL equals the seconds remaining to the next boundary when at least 60 s
\* remain, and is the floor (more than what remains) when fewer remain
C6_FlooredTtl ==
    \A i \in 1 .. Len(hist) :
        hist[i].stored =>
            /\ hist[i].ttl >= TTL_FLOOR
            /\ Remaining(hist[i].t1) >= TTL_FLOOR => hist[i].ttl = Remaining(hist[i].t1)
            /\ Remaining(hist[i].t1) < TTL_FLOOR => hist[i].ttl = TTL_FLOOR
            /\ mem[hist[i].key].exp >= hist[i].t1 + TTL_FLOOR

C6_Witness ==
    \E i \in 1 .. Len(hist) :
        /\ hist[i].stored
        /\ Remaining(hist[i].t1) < TTL_FLOOR
        /\ hist[i].ttl = TTL_FLOOR

BACKOFF_BASE_MS == 250
BACKOFF_MAX_MS == 4000
MAX_RETRIES == 4
JITTER_429_MS == 250
JITTER_ERR_MS == 100

\* what the upstream can answer to one request: a 200 with a payload and a
\* remaining-quota header, a 429 with or without Retry-After (a number of
\* seconds, an HTTP-date that lies ra_ms ahead, or text that is neither), another
\* HTTP error status, a network error or timeout
Responses ==
    {[kind |-> "ok", payload |-> p, ra |-> "none", ra_ms |-> 0, rem |-> r] :
        p \in {"p1", "p2"}, r \in {"none", "17", "n/a"}}
    \cup {[kind |-> "r429", payload |-> "", ra |-> a.ra, ra_ms |-> a.ms, rem |-> "none"] :
        a \in {[ra |-> "none", ms |-> 0], [ra |-> "text", ms |-> 0],
               [ra |-> "num", ms |-> 0], [ra |-> "num", ms |-> 1000],
               [ra |-> "num", ms |-> 10000], [ra |-> "date", ms |-> 10000]}}
    \cup {[kind |-> k, payload |-> "", ra |-> "none", ra_ms |-> 0, rem |-> "none"] :
        k \in {"http_error", "network_error"}}

Jitters(resp) ==
    IF resp.kind = "r429" THEN {0, JITTER_429_MS}
    ELSE IF resp.kind = "ok" THEN {0}
    ELSE {0, JITTER_ERR_MS}

next_delay_flat(d) == d

\* delay_ms = min(delay_ms * 2, BACKOFF_MAX_MS)
next_delay(d) == Min(d * 2, BACKOFF_MAX_MS)

\* the sleep of a 429: Retry-After, when float() parses it, or the delay if
\* larger; the delay alone when the header is absent or float() raises on it
sleep_429(resp, d) ==
    IF resp.ra = "num" THEN Max(resp.ra_ms, d) ELSE d

in_loop_one_more(n) == n <= MAX_RETRIES

\* for attempt in range(MAX_RETRIES)
in_loop(n) == n < MAX_RETRIES

InitClient ==
    /\ apikey \in BOOLEAN
    /\ kpc = "idle"
    /\ attempt = 0
    /\ delay_ms = 0
    /\ last_err = [tag |-> "none", n |-> 0]
    /\ sleeps = <<>>
    /\ resps = <<>>
    /\ kresult = ""
    /\ quota = "none"
    /\ now = 0 /\ mem = <<>> /\ cpc = [c \in Callers |-> "idle"]
    /\ ccall = [c \in Callers |-> NoCall] /\ hist = <<>>
    /\ ncalls = 0 /\ fetches = 0 /\ cap = 0 /\ lg = "ncaaf"
    /\ AdapterIdle
    /\ OthersIdle

\* _get_json is called: the credentials check and the set-up before the loop
Call ==
    /\ kpc \in {"idle", "returned", "raised", "config_error"}
    /\ attempt' = 0
    /\ sleeps' = <<>>
    /\ resps' = <<>>
    /\ kresult' = ""
    /\ last_err' = [tag |-> "none", n |-> 0]
    /\ IF ~apikey
       THEN /\ kpc' = "config_error"
            /\ delay_ms' = 0
       ELSE /\ kpc' = "loop"
            /\ delay_ms' = BACKOFF_BASE_MS
    /\ UNCHANGED <<apikey, quota>>
    /\ UNCHANGED <<cacheVars, adapterVars, otherVars>>

\* one pass of the retry loop: the request, and what the code does with the answer
Attempt(resp, jitter) ==
    /\ kpc = "loop"
    /\ in_loop(attempt)
    /\ attempt' = attempt + 1
    /\ resps' = Append(resps, resp)
    /\ IF resp.kind = "r429"
       THEN /\ sleeps' = Append(sleeps, sleep_429(resp, delay_ms) + jitter)
            /\ delay_ms' = next_delay(delay_ms)
            /\ last_err' = [tag |-> "429 backoff", n |-> attempt + 1]
            /\ UNCHANGED <<kpc, kresult, quota>>
       ELSE IF resp.kind = "ok"
       THEN /\ quota' = IF resp.rem = "17" THEN resp.rem ELSE quota
            /\ kresult' = resp.payload
            /\ kpc' = "returned"
            /\ UNCHANGED <<sleeps, delay_ms, last_err>>
       ELSE \* "except requests.RequestException": the HTTPError of
            \* raise_for_status is one, like connection errors and timeouts
            /\ last_err' = [tag |-> resp.kind, n |-> 0]
            /\ sleeps' = Append(sleeps, delay_ms + jitter)
            /\ delay_ms' = next_delay(delay_ms)
            /\ UNCHANGED <<kpc, kresult, quota>>
    /\ UNCHANGED apikey
    /\ UNCHANGED <<cacheVars, adapterVars, otherVars>>

\* the loop is over without a return: raise RuntimeError(... last_err)
Exhausted ==
    /\ kpc = "loop"
    /\ ~in_loop(attempt)
    /\ kpc' = "raised"
    /\ UNCHANGED <<apikey, attempt, delay_ms, last_err, sleeps, resps, kresult, quota>>
    /\ UNCHANGED <<cacheVars, adapterVars, otherVars>>

NextClient ==
    \/ Call
    \/ \E resp \in Responses : \E j \in Jitters(resp) : Attempt(resp, j)
    \/ Exhausted

SpecClient == InitClient /\ [][NextClient]_vars

(***************************************************************************)
(* Properties of the resilient client                                      *)
(***************************************************************************)
Kinds(rs) == [i \in 1 .. Len(rs) |-> rs[i].kind]

\* C2 as claimed: a non-429 HTTP error status ends the call at once, with no
\* backoff sleep for it and no further attempt
C2_HttpErrorFailsAtOnce ==
    \A i \in 1 .. Len(resps) :
        resps[i].kind = "http_error" =>
            /\ i = Len(resps)
            /\ kpc = "raised"
            /\ Len(sleeps) = i - 1

\* C4 as claimed: for the responses [429, 429, 200] the call returns the 200's
\* payload after exactly two sleeps, the second at least the first, both at most
\* BACKOFF_MAX_MS
C4_Original ==
    (kpc = "returned" /\ Kinds(resps) = <<"r429", "r429", "ok">>) =>
        /\ kresult = resps[3].payload
        /\ Len(sleeps) = 2
        /\ sleeps[2] >= sleeps[1]
        /\ sleeps[1] <= BACKOFF_MAX_MS
        /\ sleeps[2] <= BACKOFF_MAX_MS

\* C4 amended: for the responses [429, 429, 200] whose 429s carry no numeric
\* Retry-After header, the call returns the 200's payload after exactly two
\* sleeps, the second at least the first, both at most BACKOFF_MAX_MS
C4_NoRetryAfter ==
    (/\ kpc = "returned"
     /\ Kinds(resps) = <<"r429", "r429", "ok">>
     /\ resps[1].ra # "num" /\ resps[2].ra # "num") =>
        /\ kresult = resps[3].payload
        /\ Len(sleeps) = 2
        /\ sleeps[2] >= sleeps[1]
        /\ sleeps[1] <= BACKOFF_MAX_MS
        /\ sleeps[2] <= BACKOFF_MAX_MS

C4_Witness ==
    /\ kpc = "returned"
    /\ Kinds(resps) = <<"r429", "r429", "ok">>
    /\ resps[1].ra = "none" /\ resps[2].ra = "text"
    /\ kresult = "p2"
    /\ sleeps = <<BACKOFF_BASE_MS + JITTER_429_MS, 2 * BACKOFF_BASE_MS>>

\* the diagnostic detail of a failed attempt, the i-th of the call
DetailOf(resp, i) ==
    IF resp.kind = "r429" THEN [tag |-> "429 backoff", n |-> i]
    ELSE [tag |-> resp.kind, n |-> 0]

\* C5: a call makes at most MAX_RETRIES requests; it returns the payload of the
\* first successful response, or, every attempt having failed, raises with the
\* detail of the last failed attempt
C5_BoundedAttempts ==
    /\ Len(resps) <= MAX_RETRIES
    /\ attempt = Len(resps)
    /\ kpc = "returned" =>
          /\ resps[Len(resps)].kind = "ok"
          /\ \A i \in 1 .. Len(resps) - 1 : resps[i].kind # "ok"
          /\ kresult = resps[Len(resps)].payload
    /\ kpc = "raised" =>
          /\ Len(resps) = MAX_RETRIES
          /\ \A i \in 1 .. Len(resps) : resps[i].kind # "ok"
          /\ last_err = DetailOf(resps[MAX_RETRIES], MAX_RETRIES)
    /\ kpc = "loop" => (in_loop(attempt) \/ ENABLED Exhausted)

C5_Witness ==
    /\ kpc = "raised"
    /\ Len(resps) = MAX_RETRIES
    /\ resps[MAX_RETRIES].kind = "r429"
    /\ resps[1].kind = "network_error"
    /\ last_err = [tag |-> "429 backoff", n |-> MAX_RETRIES]

(***************************************************************************)
(* Probability math: novig.py.  A probability is an exact fraction n/d, or *)
(* undefined (None).                                                       *)
(***************************************************************************)
NoProb == [def |-> FALSE, n |-> 0, d |-> 1]
Frac(n, d) == [def |-> TRUE, n |-> n, d |-> d]

\* american_to_prob(odds)
american_to_prob(odds) ==
    IF odds = 0 THEN NoProb
    ELSE IF odds > 0 THEN Frac(100, odds + 100)
    ELSE Frac(0 - odds, (0 - odds) + 100)

\* round(x, 4) of the quotient n/d, as a number of ten-thousandths.  Off a tie
\* (n/d exactly half way between two ten-thousandths) it is the nearest one; on a
\* tie the error of the float quotient decides, and for the odds of Payload and
\* of OddsSample the float lies above the half-way point.
Round4(n, d) ==
    ((10000 * n) \div d) + (IF 2 * ((10000 * n) % d) >= d THEN 1 ELSE 0)

\* novig_two_way(over_odds, under_odds)
novig_two_way(over_odds, under_odds) ==
    LET po == american_to_prob(over_odds)
        pu == american_to_prob(under_odds)
    IN  IF ~po.def \/ ~pu.def THEN <<NoProb, NoProb>>
        ELSE LET a == po.n * pu.d
                 b == pu.n * po.d
             IN  <<Frac(Round4(a, a + b), 10000), Frac(Round4(b, a + b), 10000)>>

\* valid American odds the two sides of a market are quoted at
OddsSample ==
    {0 - 300, 0 - 150, 0 - 140, 0 - 125, 0 - 120, 0 - 115, 0 - 110, 0 - 105,
     100, 101, 110, 120, 179}

InitNovig ==
    /\ nv_over \in OddsSample
    /\ nv_under \in OddsSample
    /\ npc = "ready"
    /\ nres = <<>>
    /\ CacheIdle
    /\ ClientIdle
    /\ AdapterIdle
    /\ GroupIdle
    /\ EnrichIdle
    /\ StoreIdle
    /\ CountIdle

\* novig_two_way(over_odds, under_odds) is called and returns
NovigCall ==
    /\ npc = "ready"
    /\ nres' = novig_two_way(nv_over, nv_under)
    /\ npc' = "returned"
    /\ UNCHANGED <<nv_over, nv_under>>
    /\ UNCHANGED exceptNovig

NextNovig == NovigCall

SpecNovig == InitNovig /\ [][NextNovig]_vars

\* C12: for every pair of valid non-zero American odds novig_two_way returns two
\* probabilities, each strictly between 0 and 1, that sum to 1.0 (within 1e-9;
\* both are whole ten-thousandths).
C12_SumsToOne ==
    npc = "returned" =>
        /\ nres[1].def /\ nres[2].def
        /\ 0 < nres[1].n /\ nres[1].n < nres[1].d
        /\ 0 < nres[2].n /\ nres[2].n < nres[2].d
        /\ nres[1].d = nres[2].d
        /\ nres[1].n + nres[2].n = nres[1].d

(***************************************************************************)
(* League adapters: nfl_odds_api.py, props_ncaaf.py, props_ufc.py and      *)
(* odds_api.fetch_player_props (MLB)                                       *)
(***************************************************************************)
MAX_WORKERS == 4

AdapterLeagues == {"mlb", "nfl", "ncaaf", "ufc"}
PoolLeagues == {"nfl", "ncaaf", "ufc"}

\* an outcome of a bookmaker's market: description, name, point, price
Out(player, name, point, price) ==
    [player |-> player, name |-> name, point |-> point, pk |-> "int", price |-> price]
BadOut(player, name, point) ==
    [player |-> player, name |-> name, point |-> point, pk |-> "str", price |-> 0]
Book(key, title, outs) == [key |-> key, title |-> title, outs |-> outs]

\* the upstream answers to the odds request of one event
PayloadNames == {"err", "even", "two", "one", "fav", "zero", "bad", "mixed", "split"}
Payload(name) ==
    CASE name = "err" -> [err |-> TRUE, books |-> <<>>]
      [] name = "even" -> [err |-> FALSE, books |-> <<
            Book("dk", "DraftKings", <<Out("P1", "Over", "1.5", 0 - 110),
                                       Out("P1", "Under", "1.5", 0 - 110)>>)>>]
      [] name = "two" -> [err |-> FALSE, books |-> <<
            Book("dk", "DraftKings", <<Out("P1", "Over", "1.5", 0 - 120),
                                       Out("P1", "Under", "1.5", 100)>>),
            Book("fd", "FanDuel", <<Out("P1", "Over", "1.5", 0 - 105),
                                    Out("P1", "Under", "1.5", 0 - 115)>>)>>]
      [] name = "one" -> [err |-> FALSE, books |-> <<
            Book("dk", "DraftKings", <<Out("P1", "Over", "1.5", 0 - 120)>>)>>]
      [] name = "fav" -> [err |-> FALSE, books |-> <<
            Book("fd", "FanDuel", <<Out("P1", "Over", "1.5", 0 - 150),
                                    Out("P1", "Under", "1.5", 120),
                                    Out("P2", "Over", "2.5", 110),
                                    Out("P2", "Under", "2.5", 0 - 140)>>)>>]
      [] name = "zero" -> [err |-> FALSE, books |-> <<
            Book("dk", "DraftKings", <<Out("P1", "Over", "1.5", 0),
                                       Out("P1", "Under", "1.5", 0 - 110)>>)>>]
      [] name = "bad" -> [err |-> FALSE, books |-> <<
            Book("dk", "DraftKings", <<BadOut("P1", "Over", "1.5"),
                                       Out("P1", "Under", "1.5", 0 - 110)>>)>>]
      [] name = "mixed" -> [err |-> FALSE, books |-> <<
            Book("dk", "DraftKings", <<BadOut("P1", "Over", "1.5")>>),
            Book("fd", "FanDuel", <<Out("P2", "Over", "2.5", 0 - 110),
                                    Out("P2", "Under", "2.5", 0 - 110)>>)>>]
      [] name = "split" -> [err |-> FALSE, books |-> <<
            Book("dk", "DraftKings", <<Out("P1", "Over", "1.5", 0 - 110)>>),
            Book("fd", "FanDuel", <<Out("P1", "Over", "1.5", 0 - 105),
                                    Out("P1", "Under", "1.5", 0 - 115)>>)>>]

\* (out.get("name") or "").lower()
Lower(name) ==
    CASE name = "Over" -> "over"
      [] name = "Under" -> "under"
      [] name = "Yes" -> "yes"
      [] name = "No" -> "no"
      [] OTHER -> name

NoTick == [has |-> FALSE, book |-> "", price |-> 0]
Tick0(book, price) == [has |-> TRUE, book |-> book, price |-> price]

\* the stat key of the one market the model carries per league
StatKey(league) ==
    CASE league = "ufc" -> "totals"
      [] league = "mlb" -> "batter_hits"
      [] OTHER -> "player_pass_yds"

\* the (bookmaker key, outcome) pairs of a payload in the order the loops visit them
RECURSIVE FlatOuts(_, _, _)
FlatOuts(books, b, o) ==
    IF b > Len(books) THEN <<>>
    ELSE IF o > Len(books[b].outs) THEN FlatOuts(books, b + 1, 1)
    ELSE <<[book |-> books[b].key, out |-> books[b].outs[o]]>> \o FlatOuts(books, b, o + 1)

IndexOfKey(pairs, k) ==
    IF \E i \in 1 .. Len(pairs) : pairs[i].k = k
    THEN CHOOSE i \in 1 .. Len(pairs) : pairs[i].k = k
    ELSE 0

\* _pair_outcomes: one pass of its innermost loop over the outcome e, the pairs so
\* far being acc.pairs; int(price) raises on a price that is no number
pair_one(acc, e, stat_key) ==
    LET out == e.out
        player == IF out.player # "" THEN out.player ELSE out.name
        side0 == Lower(out.name)
        side == IF side0 \in {"over", "under"} THEN side0
                ELSE IF side0 \in {"yes", "anytime_td"} THEN "over"
                ELSE IF side0 = "no" THEN "under" ELSE side0
        k == <<player, stat_key, out.point>>
        tick == Tick0(e.book, out.price)
        at == IndexOfKey(acc.pairs, k)
    IN  IF ~acc.ok THEN acc
        ELSE IF player = "" \/ out.pk = "none" THEN acc
        ELSE IF out.pk = "str" THEN [ok |-> FALSE, pairs |-> acc.pairs]
        ELSE IF side \notin {"over", "under"} THEN acc
        ELSE IF at = 0
        THEN [ok |-> TRUE, pairs |-> Append(acc.pairs,
                 [k |-> k,
                  over |-> IF side = "over" THEN tick ELSE NoTick,
                  under |-> IF side = "under" THEN tick ELSE NoTick])]
        ELSE IF side = "over" /\ ~acc.pairs[at].over.has
        THEN [ok |-> TRUE, pairs |-> [acc.pairs EXCEPT ![at].over = tick]]
        ELSE IF side = "under" /\ ~acc.pairs[at].under.has
        THEN [ok |-> TRUE, pairs |-> [acc.pairs EXCEPT ![at].under = tick]]
        ELSE acc

RECURSIVE PairFold(_, _, _, _)
PairFold(acc, flat, j, stat_key) ==
    IF j > Len(flat) THEN acc
    ELSE PairFold(pair_one(acc, flat[j], stat_key), flat, j + 1, stat_key)

\* _pair_outcomes(bookmakers, stat_key): [ok, pairs], pairs in first-seen order
pair_outcomes(books, stat_key) ==
    PairFold([ok |-> TRUE, pairs |-> <<>>], FlatOuts(books, 1, 1), 1, stat_key)

\* _attach_fair(row, over, under): prob_to_american(None) raises when a two-sided
\* pair has no fair value
attach_fair(over, under) ==
    IF over.has /\ under.has
    THEN LET f == novig_two_way(over.price, under.price)
         IN  [ok |-> f[1].def, fo |-> f[1], fu |-> f[2], book |-> over.book]
    ELSE IF over.has
    THEN [ok |-> TRUE, fo |-> american_to_prob(over.price), fu |-> NoProb, book |-> over.book]
    ELSE IF under.has
    THEN [ok |-> TRUE, fo |-> NoProb, fu |-> american_to_prob(under.price), book |-> under.book]
    ELSE [ok |-> FALSE, fo |-> NoProb, fu |-> NoProb, book |-> ""]

\* the matchup string of event i: f"{away} @ {home}", f"{away} vs {home}"
Matchup(i, sep) == <<"away", i, sep, "home", i>>

Prop(i, league, matchup, player, stat, line, over, under, book, fo, fu) ==
    [eid |-> i, league |-> league, matchup |-> matchup, player |-> player,
     stat |-> stat, line |-> line, over |-> over, under |-> under, book |-> book,
     fo |-> fo, fu |-> fu]

RECURSIVE RowsOf(_, _, _, _)
RowsOf(i, league, pairs, j) ==
    IF j > Len(pairs) THEN [ok |-> TRUE, props |-> <<>>]
    ELSE LET pr == pairs[j]
             f == attach_fair(pr.over, pr.under)
             rest == RowsOf(i, league, pairs, j + 1)
         IN  IF ~f.ok \/ ~rest.ok THEN [ok |-> FALSE, props |-> <<>>]
             ELSE [ok |-> TRUE, props |->
                     <<Prop(i, league, Matchup(i, "@"), pr.k[1], pr.k[2], pr.k[3],
                            pr.over, pr.under, f.book, f.fo, f.fu)>> \o rest.props]

\* fetch_nfl_player_props._one_event, fetch_ncaaf_player_props._one: the task of
\* event i; [ok, props], ok = FALSE when the task raises
one_event(i, league, pay) ==
    IF pay.err THEN [ok |-> FALSE, props |-> <<>>]
    ELSE LET sb == pair_outcomes(pay.books, StatKey(league))
         IN  IF ~sb.ok THEN [ok |-> FALSE, props |-> <<>>]
             ELSE RowsOf(i, league, sb.pairs, 1)

\* the last outcome of a market whose lower-cased name contains "over" / "under"
LastSide(outs, side) ==
    LET hits == {j \in 1 .. Len(outs) : Lower(outs[j].name) = side}
    IN  IF hits = {} THEN 0 ELSE CHOOSE j \in hits : \A x \in hits : x <= j

\* line_value after the scan of a market's outcomes: every "over" outcome sets it,
\* an "under" outcome sets it only while it is still None
RECURSIVE LineValue(_, _, _)
LineValue(outs, j, line) ==
    IF j > Len(outs) THEN line
    ELSE IF Lower(outs[j].name) = "over" THEN LineValue(outs, j + 1, outs[j].point)
    ELSE IF Lower(outs[j].name) = "under" /\ line = "none"
    THEN LineValue(outs, j + 1, outs[j].point)
    ELSE LineValue(outs, j + 1, line)

\* the loop over the bookmakers of fetch_ufc_totals_props._process_event: "break"
\* leaves only the loop over one bookmaker's markets, so every bookmaker with
\* both sides and a line appends a Prop; novig_two_way raises on a price that
\* is no number
RECURSIVE UfcRows(_, _, _)
UfcRows(i, books, b) ==
    IF b > Len(books) THEN [ok |-> TRUE, props |-> <<>>]
    ELSE LET outs == books[b].outs
             o == LastSide(outs, "over")
             u == LastSide(outs, "under")
             line == LineValue(outs, 1, "none")
             rest == UfcRows(i, books, b + 1)
         IN  IF o = 0 \/ u = 0 \/ line = "none" THEN rest
             ELSE IF outs[o].pk = "none" \/ outs[u].pk = "none" THEN rest
             ELSE IF outs[o].pk = "str" \/ outs[u].pk = "str" \/ ~rest.ok
             THEN [ok |-> FALSE, props |-> <<>>]
             ELSE LET f == novig_two_way(outs[o].price, outs[u].price)
                  IN  [ok |-> TRUE, props |->
                         <<Prop(i, "ufc", Matchup(i, "vs"), Matchup(i, "vs"),
                                "fight_total_rounds", line,
                                Tick0(books[b].key, outs[o].price),
                                Tick0(books[b].key, outs[u].price),
                                books[b].key, f[1], f[2])>> \o rest.props]

\* fetch_ufc_totals_props._process_event: an odds request that raises gives []
process_event(i, pay) ==
    IF pay.err THEN [ok |-> TRUE, props |-> <<>>]
    ELSE UfcRows(i, pay.books, 1)

RECURSIVE MlbRows(_, _, _)
MlbRows(i, flat, j) ==
    IF j > Len(flat) THEN <<>>
    ELSE LET out == flat[j].out
             player == IF out.player # "" THEN out.player ELSE out.name
         IN  (IF player # "" /\ out.pk # "none"
              THEN <<Prop(i, "mlb", <<>>, player, StatKey("mlb"), out.point,
                          Tick0(flat[j].book, out.price), NoTick, flat[j].book,
                          NoProb, NoProb)>>
              ELSE <<>>) \o MlbRows(i, flat, j + 1)

VALID_BOOKS == {"DraftKings", "FanDuel", "BetMGM"}

\* odds_api.fetch_player_props: the raw props of one event, one per outcome of a
\* valid bookmaker; a failed odds request is logged and the event skipped
mlb_event(i, pay) ==
    IF pay.err THEN <<>>
    ELSE LET valid == SelectSeq(pay.books, LAMBDA b : b.title \in VALID_BOOKS)
             titled == [b \in 1 .. Len(valid) |-> [valid[b] EXCEPT !.key = valid[b].title]]
         IN  MlbRows(i, FlatOuts(titled, 1, 1), 1)

TaskResult(i, league, name) ==
    IF league = "ufc" THEN process_event(i, Payload(name))
    ELSE one_event(i, league, Payload(name))

\* the sort key: ((p.get("fair") or {}).get("prob") or {}).get("over") or 0.0
SortKey(p) == IF p.fo.def THEN p.fo ELSE Frac(0, 1)
KeyLess(a, b) == SortKey(a).n * SortKey(b).d < SortKey(b).n * SortKey(a).d

\* list.sort(key=..., reverse=True): stable, descending
RECURSIVE SortDesc(_)
InsertDesc(sorted, p) ==
    LET before == {j \in 1 .. Len(sorted) : ~KeyLess(sorted[j], p)}
        at == IF before = {} THEN 0 ELSE CHOOSE j \in before : \A x \in before : x <= j
    IN  SubSeq(sorted, 1, at) \o <<p>> \o SubSeq(sorted, at + 1, Len(sorted))
SortDesc(ps) ==
    IF ps = <<>> THEN <<>>
    ELSE InsertDesc(SortDesc(SubSeq(ps, 1, Len(ps) - 1)), ps[Len(ps)])

sorts_never(league) == FALSE

\* the adapters that sort the aggregate list before returning it
sorts_result(league) == league \in {"nfl", "ncaaf"}

after_failed_task_abort == "raised"

\* "except Exception as e: print(...)": the loop over the futures goes on
after_failed_task == "pool"

MaxEvents == 2

\* the event lists the upstream can answer with
RECURSIVE EventLists(_)
EventLists(n) ==
    IF n = 0 THEN {<<>>}
    ELSE EventLists(n - 1) \cup
         {Append(evs, name) : evs \in {e \in EventLists(n - 1) : Len(e) = n - 1},
                              name \in PayloadNames}

InitAdapter ==
    /\ akey \in BOOLEAN
    /\ aleague \in AdapterLeagues
    /\ events \in EventLists(MaxEvents)
    /\ apc = "start"
    /\ task = [i \in 1 .. Len(events) |-> "pending"]
    /\ collected = {}
    /\ midx = 0
    /\ all_props = <<>>
    /\ aresult = <<>>
    /\ CacheIdle
    /\ ClientIdle
    /\ OthersIdle

\* list_nfl_events / list_events_ncaaf / list_events_ufc / the MLB events request
\* answers; the pool adapters submit one task per event
ListEvents ==
    /\ apc = "start"
    /\ akey
    /\ apc' = IF aleague = "mlb" THEN "mlb" ELSE "pool"
    /\ UNCHANGED <<akey, aleague, events, task, collected, midx, all_props, aresult>>
    /\ UNCHANGED <<cacheVars, clientVars, otherVars>>

\* the events request raises: the pool adapters let it propagate, the MLB
\* adapter logs it and returns []
ListEventsRaise ==
    /\ apc = "start"
    /\ akey
    /\ apc' = IF aleague = "mlb" THEN "done" ELSE "raised"
    /\ aresult' = <<>>
    /\ UNCHANGED <<akey, aleague, events, task, collected, midx, all_props>>
    /\ UNCHANGED <<cacheVars, clientVars, otherVars>>

\* the API key is not set: _get_json of the NFL, NCAAF and UFC clients raises
\* (assert API_KEY / RuntimeError) out of the events listing, fetch_player_props
\* (MLB) logs and returns []
NoCredentials ==
    /\ apc = "start"
    /\ ~akey
    /\ apc' = IF aleague = "mlb" THEN "done" ELSE "config_error"
    /\ aresult' = <<>>
    /\ UNCHANGED <<akey, aleague, events, task, collected, midx, all_props>>
    /\ UNCHANGED <<cacheVars, clientVars, otherVars>>

Running == {i \in DOMAIN task : task[i] = "running"}

\* a free worker of the pool takes the oldest submitted task
StartTask(i) ==
    /\ apc = "pool"
    /\ task[i] = "pending"
    /\ \A j \in 1 .. (i - 1) : task[j] # "pending"
    /\ Cardinality(Running) < MAX_WORKERS
    /\ task' = [task EXCEPT ![i] = "running"]
    /\ UNCHANGED <<akey, aleague, events, apc, collected, midx, all_props, aresult>>
    /\ UNCHANGED <<cacheVars, clientVars, otherVars>>

\* the task of event i runs to its end: it returns its Props or raises
FinishTask(i) ==
    /\ apc = "pool"
    /\ task[i] = "running"
    /\ task' = [task EXCEPT ![i] =
                 IF TaskResult(i, aleague, events[i]).ok THEN "ok" ELSE "failed"]
    /\ UNCHANGED <<akey, aleague, events, apc, collected, midx, all_props, aresult>>
    /\ UNCHANGED <<cacheVars, clientVars, otherVars>>

\* as_completed yields the finished future of event i:
\* all_props.extend(f.result()), or the exception is logged
Collect(i) ==
    /\ apc = "pool"
    /\ i \notin collected
    /\ task[i] \in {"ok", "failed"}
    /\ collected' = collected \cup {i}
    /\ IF task[i] = "ok"
       THEN /\ all_props' = all_props \o TaskResult(i, aleague, events[i]).props
            /\ UNCHANGED apc
       ELSE /\ apc' = after_failed_task
            /\ UNCHANGED all_props
    /\ UNCHANGED <<akey, aleague, events, task, midx, aresult>>
    /\ UNCHANGED <<cacheVars, clientVars, otherVars>>

\* every future is collected: the list is sorted (NFL, NCAAF) and returned
Return ==
    /\ apc = "pool"
    /\ collected = DOMAIN task
    /\ aresult' = IF sorts_result(aleague) THEN SortDesc(all_props) ELSE all_props
    /\ apc' = "done"
    /\ UNCHANGED <<akey, aleague, events, task, collected, midx, all_props>>
    /\ UNCHANGED <<cacheVars, clientVars, otherVars>>

\* one pass of the sequential loop over the events of fetch_player_props
MlbEvent ==
    /\ apc = "mlb"
    /\ midx < Len(events)
    /\ midx' = midx + 1
    /\ all_props' = all_props \o mlb_event(midx + 1, Payload(events[midx + 1]))
    /\ UNCHANGED <<akey, aleague, events, apc, task, collected, aresult>>
    /\ UNCHANGED <<cacheVars, clientVars, otherVars>>

\* fetch_player_props returns the raw list
MlbReturn ==
    /\ apc = "mlb"
    /\ midx = Len(events)
    /\ aresult' = all_props
    /\ apc' = "done"
    /\ UNCHANGED <<akey, aleague, events, task, collected, midx, all_props>>
    /\ UNCHANGED <<cacheVars, clientVars, otherVars>>

NextAdapter ==
    \/ NoCredentials
    \/ ListEvents
    \/ ListEventsRaise
    \/ \E i \in DOMAIN task : StartTask(i)
    \/ \E i \in DOMAIN task : FinishTask(i)
    \/ \E i \in DOMAIN task : Collect(i)
    \/ Return
    \/ MlbEvent
    \/ MlbReturn

SpecAdapter == InitAdapter /\ [][NextAdapter]_vars

(***************************************************************************)
(* Matchup grouping: matchups.py.  A label string "X @ Y" or "X vs Y" is    *)
(* the triple <<X, sep, Y>>; a missing field is "" (or <<>> for a label).  *)
(***************************************************************************)
MaxProps == 2
MaxRuns == 2

\* str.strip() on the team names of the sample
Strip(x) ==
    CASE x = " A2 " -> "A2"
      [] x = "  " -> ""
      [] OTHER -> x

\* _fmt(away, home)
Fmt(away, home) ==
    <<IF Strip(away) # "" THEN Strip(away) ELSE "Away", "@",
      IF Strip(home) # "" THEN Strip(home) ELSE "Home">>

\* _ufc_matchup(p)
ufc_matchup(p) ==
    LET a == IF p.fighter # "" THEN p.fighter ELSE p.player
        b == p.opponent
    IN  <<IF Strip(a) # "" THEN Strip(a) ELSE "Fighter A", "vs",
          IF Strip(b) # "" THEN Strip(b) ELSE "Fighter B">>

\* _teams_from_prop(p)
teams_from_prop(p) == <<Strip(p.away_team), Strip(p.home_team)>>

\* _teams_from_games_index(p, games)
teams_from_games_index(p, games) ==
    LET hits == {j \in 1 .. Len(games) :
                    games[j].event_id # "" /\ games[j].event_id = p.event_id}
    IN  IF p.event_id = "" \/ hits = {} THEN <<"", "">>
        ELSE LET g == games[CHOOSE j \in hits : \A x \in hits : j <= x]
             IN  <<Strip(g.away_team), Strip(g.home_team)>>

\* load_games_for_league(league): the cached "<league>_odds" value as a list
load_games_for_league(data) ==
    IF data.kind \in {"list", "games", "data", "map"} THEN data.games ELSE <<>>

\* the bucket label group_props_by_matchup gives the Prop p
label_of(p, league, games) ==
    IF league = "ufc" THEN ufc_matchup(p)
    ELSE LET t1 == teams_from_games_index(p, games)
             t == IF t1[1] = "" /\ t1[2] = "" THEN teams_from_prop(p) ELSE t1
         IN  IF t[1] = "" /\ t[2] = "" /\ p.matchup # <<>> THEN p.matchup
             ELSE Fmt(t[1], t[2])

\* out.setdefault(key, []).append(p): buckets keep first-seen order
BucketAdd(out, key, p) ==
    IF \E j \in 1 .. Len(out) : out[j].label = key
    THEN [j \in 1 .. Len(out) |->
            IF out[j].label = key
            THEN [label |-> key, props |-> Append(out[j].props, p)] ELSE out[j]]
    ELSE Append(out, [label |-> key, props |-> <<p>>])

RECURSIVE GroupFold(_, _, _, _, _)
GroupFold(out, props, j, league, games) ==
    IF j > Len(props) THEN out
    ELSE GroupFold(BucketAdd(out, label_of(props[j], league, games), props[j]),
                   props, j + 1, league, games)

\* group_props_by_matchup(props, league), games being what the cache holds
group_props_by_matchup(props, league, data) ==
    GroupFold(<<>>, props, 1, league, load_games_for_league(data))

label_into_away(props, out) ==
    [j \in 1 .. Len(props) |->
        LET b == CHOOSE x \in 1 .. Len(out) : \E y \in 1 .. Len(out[x].props) :
                                                  out[x].props[y] = props[j]
        IN  [props[j] EXCEPT !.away_team = out[b].label[1]]]

\* the caller's Props after a run: group_props_by_matchup writes nothing onto them
props_after_group(props, out) == props

GProp(event_id, away, home, matchup, fighter, player, opponent) ==
    [event_id |-> event_id, away_team |-> away, home_team |-> home,
     matchup |-> matchup, fighter |-> fighter, player |-> player,
     opponent |-> opponent]

\* a label as the string it stands for
Text(label) == label[1] \o " " \o label[2] \o " " \o label[3]

\* the Prop the UFC adapter builds for the bout a vs b: "matchup" and "player"
\* both hold the string "{a} vs {b}"; it has no fighter, opponent, team or
\* event id field
UfcAdapterProp(a, b) ==
    GProp("", "", "", <<a, "vs", b>>, "", Text(<<a, "vs", b>>), "")

\* the Props the lists are drawn from
GroupSample ==
    {GProp("e1", "", "", <<>>, "", "P1", ""),
     GProp("", "A2", "H2", <<>>, "", "P2", ""),
     GProp("", " A2 ", "H2", <<>>, "", "P3", ""),
     GProp("", "", "", <<"A2", "@", "H2">>, "", "P4", ""),
     GProp("", "", "", <<>>, "", "P5", ""),
     GProp("", "", "", <<>>, "", "P6", ""),
     GProp("", "", "H7", <<>>, "", "P7", ""),
     GProp("", "", "", <<>>, "F1", "", "F2"),
     GProp("e1", "A9", "H9", <<"A2", "@", "H2">>, "", "P8", ""),
     UfcAdapterProp("F3", "F4")}

\* what the cache can hold under "<league>_odds"
GamesSample ==
    {[kind |-> "none", games |-> <<>>],
     [kind |-> "list", games |-> <<[event_id |-> "e1", away_team |-> "A1",
                                   home_team |-> "H1"]>>]}

RECURSIVE PropLists(_)
PropLists(n) ==
    IF n = 0 THEN {<<>>}
    ELSE PropLists(n - 1) \cup
         {Append(ps, p) : ps \in {x \in PropLists(n - 1) : Len(x) = n - 1},
                          p \in GroupSample}

InitGroup ==
    /\ gleague \in {"nfl", "ufc"}
    /\ gprops \in PropLists(MaxProps)
    /\ gcache \in GamesSample
    /\ gout = <<>>
    /\ ghist = <<>>
    /\ CacheIdle
    /\ ClientIdle
    /\ AdapterIdle
    /\ NovigIdle
    /\ EnrichIdle
    /\ StoreIdle
    /\ CountIdle

\* one run of group_props_by_matchup(props, league)
GroupCall ==
    /\ Len(ghist) < MaxRuns
    /\ LET out == group_props_by_matchup(gprops, gleague, gcache)
       IN  /\ gout' = out
           /\ ghist' = Append(ghist, [props |-> gprops, data |-> gcache, out |-> out])
           /\ gprops' = props_after_group(gprops, out)
    /\ UNCHANGED <<gleague, gcache>>
    /\ UNCHANGED exceptGroup

\* the cached "<league>_odds" value is written by its producer, or expires
GamesCacheChange ==
    /\ Len(ghist) < MaxRuns
    /\ gcache' \in GamesSample \ {gcache}
    /\ UNCHANGED <<gleague, gprops, gout, ghist>>
    /\ UNCHANGED exceptGroup

NextGroup == GroupCall \/ GamesCacheChange

SpecGroup == InitGroup /\ [][NextGroup]_vars

(***************************************************************************)
(* Enrichment: bets4app.enrich_with_context_and_edge and                   *)
(* odds_api.enrich_prop.  Rates are in ten-thousandths, AI_MIN_EDGE and    *)
(* the threshold in hundredths, attached edges in tenths of a percentage   *)
(* point.                                                                  *)
(***************************************************************************)
NoPrice == [kind |-> "none", price |-> 0]
NumPrice(x) == [kind |-> "num", price |-> x]
DictPrice(x) == [kind |-> "dict", price |-> x]

\* _price_from(prop, key) or prop.get(key + "_odds"): a price of 0 is falsy, and
\* the sample carries no "*_odds" field
price_or_none(v) == IF v.kind = "none" \/ v.price = 0 THEN NoPrice ELSE NumPrice(v.price)

\* _compute_fair_probs(prop): (po/s, pu/s), not rounded, or (None, None)
compute_fair_probs(prop) ==
    LET over == price_or_none(prop.over)
        under == price_or_none(prop.under)
    IN  IF over.kind = "none" \/ under.kind = "none" THEN <<NoProb, NoProb>>
        ELSE LET po == american_to_prob(over.price)
                 pu == american_to_prob(under.price)
                 a == po.n * pu.d
                 b == pu.n * po.d
             IN  <<Frac(a, a + b), Frac(b, a + b)>>

\* what get_contextual_hit_rate does for the Prop: it raises, returns None, or
\* returns a rate r (0..1 or 0..100)
Raises == [kind |-> "raise", r |-> 0]
ReturnsNone == [kind |-> "none", r |-> 0]
Returns(r) == [kind |-> "value", r |-> r]

\* _ctx_rate_fraction: None on an exception or None, r / 100 if r > 1.0, else r
ctx_rate_fraction(prov) ==
    IF prov.kind # "value" THEN NoProb
    ELSE IF prov.r > 10000 THEN Frac(prov.r \div 100, 10000)
    ELSE Frac(prov.r, 10000)

\* _edge_threshold_pp(): AI_MIN_EDGE <= 1 is a fraction, else percentage points
edge_threshold_pp(v) == IF v <= 100 THEN v * 100 ELSE v

\* n / d rounded to the nearest integer (no tie arises for the sample)
RoundDiv(n, d) ==
    IF n >= 0 THEN (2 * n + d) \div (2 * d) ELSE 0 - ((2 * (0 - n) + d) \div (2 * d))

NoEdge == [def |-> FALSE, t |-> 0]

\* the pick: edge_over >= thr, else edge_under >= thr, tested on the edge before
\* it is rounded; the edge is num / den percentage points
pick_of(num, den, thr) ==
    IF num >= thr * (den \div 100) THEN "OVER"
    ELSE IF 0 - num >= thr * (den \div 100) THEN "UNDER"
    ELSE "none"

\* enrich_prop: the hit rate of the contextual object; an exception or an empty
\* answer is replaced by the fallback object with hit_rate 0.30
contextual_hit_rate(prov) ==
    IF prov.kind = "value" THEN ctx_rate_fraction(prov) ELSE Frac(3000, 10000)

\* enrich_with_context_and_edge, for one row
enrich_with_context_and_edge(prop, prov, min_edge) ==
    LET thr == edge_threshold_pp(min_edge)
        f == compute_fair_probs(prop)
        fo == f[1]
        c == ctx_rate_fraction(prov)
        both == fo.def /\ c.def
        num == c.n * fo.d - 10000 * fo.n
        den == 100 * fo.d
        tenths == RoundDiv(num, 10 * fo.d)
    IN  [fair_over |-> IF fo.def THEN fo ELSE prop.fair_over,
         fair_under |-> IF fo.def THEN f[2] ELSE prop.fair_under,
         ctx_over |-> c,
         ctx_under |-> IF c.def THEN Frac(10000 - c.n, 10000) ELSE NoProb,
         edge_over |-> IF both THEN [def |-> TRUE, t |-> tenths] ELSE NoEdge,
         edge_under |-> IF both THEN [def |-> TRUE, t |-> 0 - tenths] ELSE NoEdge,
         pick |-> IF both THEN pick_of(num, den, thr) ELSE "none"]

\* the caller's row after enrich_with_context_and_edge: p = dict(r) copies the
\* top level only, so p.setdefault("fair", {}) hands back the row's own "fair"
\* dict when it has one, and the recomputed probabilities are written into it
row_after_enrich(prop, prov, min_edge) ==
    LET f == compute_fair_probs(prop)
    IN  IF (prop.fair_over.def \/ prop.fair_under.def) /\ f[1].def /\ f[2].def
        THEN [prop EXCEPT !.fair_over = f[1], !.fair_under = f[2]]
        ELSE prop

\* enrich_prop: the Prop with its contextual hit rate
enrich_prop(prop, prov) ==
    [fair_over |-> prop.fair_over, fair_under |-> prop.fair_under,
     ctx_over |-> contextual_hit_rate(prov), ctx_under |-> NoProb,
     edge_over |-> NoEdge, edge_under |-> NoEdge, pick |-> "none"]

EProp(over, under, fo, fu) ==
    [over |-> over, under |-> under, fair_over |-> fo, fair_under |-> fu]

\* the Props enrichment is given: raw prices as numbers or as {"price": ...},
\* an adapter Prop with its fair values and no top-level prices, a one-sided
\* Prop, a price of 0, a bare Prop, an NFL adapter Prop with its two ticks and
\* its fair values (rounded to four places by the adapter)
EnrichSample ==
    {EProp(NumPrice(0 - 110), NumPrice(0 - 110), NoProb, NoProb),
     EProp(DictPrice(0 - 120), DictPrice(100), NoProb, NoProb),
     EProp(NoPrice, NoPrice, Frac(5217, 10000), Frac(4783, 10000)),
     EProp(NumPrice(0 - 120), NoPrice, Frac(120, 220), NoProb),
     EProp(NumPrice(0), NumPrice(0 - 110), NoProb, NoProb),
     EProp(NoPrice, NoPrice, NoProb, NoProb),
     EProp(DictPrice(0 - 120), DictPrice(100), Frac(5217, 10000), Frac(4783, 10000))}

ProviderSample ==
    {Raises, ReturnsNone, Returns(5000), Returns(5596), Returns(5600),
     Returns(4400), Returns(440000), Returns(6500)}

\* AI_MIN_EDGE: 0.06, 6.0 and 0.0
MinEdgeSample == {6, 600, 0}

InitEnrich ==
    /\ eprop \in EnrichSample
    /\ eprov \in ProviderSample
    /\ emin \in MinEdgeSample
    /\ efn = "ready"
    /\ eout = <<>>
    /\ CacheIdle
    /\ ClientIdle
    /\ AdapterIdle
    /\ NovigIdle
    /\ GroupIdle
    /\ StoreIdle
    /\ CountIdle

\* bets4app.enrich_with_context_and_edge enriches the Prop, a first time or
\* once more over the same row
EnrichWithContextAndEdge ==
    /\ efn \in {"ready", "context_edge"}
    /\ efn' = "context_edge"
    /\ eout' = enrich_with_context_and_edge(eprop, eprov, emin)
    /\ eprop' = row_after_enrich(eprop, eprov, emin)
    /\ UNCHANGED <<eprov, emin>>
    /\ UNCHANGED exceptEnrich

\* odds_api.enrich_prop enriches the Prop
EnrichProp ==
    /\ efn = "ready"
    /\ efn' = "enrich_prop"
    /\ eout' = enrich_prop(eprop, eprov)
    /\ UNCHANGED <<eprop, eprov, emin>>
    /\ UNCHANGED exceptEnrich

NextEnrich == EnrichWithContextAndEdge \/ EnrichProp

SpecEnrich == InitEnrich /\ [][NextEnrich]_vars

(***************************************************************************)
(* Storage backends: cache_ttl.setex/get and universal_cache.set_json/     *)
(* get_json.  Process A has the distributed store configured, process B    *)
(* runs on the in-process map; both are given the same operations.  Writes *)
(* happen at even instants, reads at odd ones and TTLs are even, so no     *)
(* read falls on the instant an entry expires.                             *)
(***************************************************************************)
MaxOps == 3
MaxTime == 5

StoreKeys == {"k1"}
StoreValues == {"v1", "v2", "tuple"}
StoreTtls == {2, 4}

\* json.loads(json.dumps(value)): a tuple comes back as a list
JsonRoundTrip(value) == IF value = "tuple" THEN "list" ELSE value

NoEntry == [has |-> FALSE, exp |-> 0, raw |-> ""]
Entry(exp, raw) == [has |-> TRUE, exp |-> exp, raw |-> raw]
Lookup(db, key) == IF key \in DOMAIN db THEN db[key] ELSE NoEntry
Store(db, key, e) == (key :> e) @@ db

Miss == [kind |-> "none", val |-> ""]
Hit(raw) == [kind |-> "value", val |-> raw]
Raised == [kind |-> "raise", val |-> ""]

\* the distributed store's GET: a key is gone once its TTL has run out
redis_get(db, key, t) ==
    LET e == Lookup(db, key) IN IF e.has /\ t < e.exp THEN Hit(e.raw) ELSE Miss

\* cache_ttl.get on the in-process map: expired when time.time() > exp
ttl_mem_get(db, key, t) ==
    LET e == Lookup(db, key) IN IF e.has /\ ~(t > e.exp) THEN Hit(e.raw) ELSE Miss

\* universal_cache.get_json on the in-process map: live while exp > time.time()
uc_mem_get(db, key, t) ==
    LET e == Lookup(db, key) IN IF e.has /\ e.exp > t THEN Hit(e.raw) ELSE Miss

\* the module's get on the in-process map
mem_get(module, db, key, t) ==
    IF module = "cache_ttl" THEN ttl_mem_get(db, key, t) ELSE uc_mem_get(db, key, t)

\* the module's get with the distributed store configured: cache_ttl.get returns
\* the store's answer, or falls back to the map when the store raises;
\* universal_cache.get_json lets the exception out
redis_backed_get(module, db, mem0, key, t, redis_ok) ==
    IF redis_ok THEN redis_get(db, key, t)
    ELSE IF module = "cache_ttl" THEN ttl_mem_get(mem0, key, t)
    ELSE Raised

InitStore ==
    /\ smodule \in {"cache_ttl", "universal_cache"}
    /\ sclock = 0
    /\ sops = 0
    /\ redis_db = <<>>
    /\ mem_a = <<>>
    /\ mem_b = <<>>
    /\ sgot = <<>>
    /\ CacheIdle
    /\ ClientIdle
    /\ AdapterIdle
    /\ NovigIdle
    /\ GroupIdle
    /\ EnrichIdle
    /\ CountIdle

\* time passes
StoreTick ==
    /\ sclock < MaxTime
    /\ sclock' = sclock + 1
    /\ UNCHANGED <<smodule, sops, redis_db, mem_a, mem_b, sgot>>
    /\ UNCHANGED exceptStore

\* setex(key, ttl, value) / set_json(key, value, ttl) in both processes; in A the
\* distributed store takes the write, or raises: cache_ttl then writes the map,
\* universal_cache.set_json lets the exception out
StoreSetex(key, ttl, value, redis_ok) ==
    /\ sops < MaxOps
    /\ sclock % 2 = 0
    /\ sops' = sops + 1
    /\ LET e == Entry(sclock + ttl, JsonRoundTrip(value))
       IN  /\ redis_db' = IF redis_ok THEN Store(redis_db, key, e) ELSE redis_db
           /\ mem_a' = IF ~redis_ok /\ smodule = "cache_ttl"
                       THEN Store(mem_a, key, e) ELSE mem_a
           /\ mem_b' = Store(mem_b, key, e)
    /\ UNCHANGED <<smodule, sclock, sgot>>
    /\ UNCHANGED exceptStore

\* get(key) / get_json(key) in both processes; cache_ttl.get drops an expired
\* entry of the map it reads
StoreGet(key, redis_ok) ==
    /\ sops < MaxOps
    /\ sclock % 2 = 1
    /\ sops' = sops + 1
    /\ sgot' = [a |-> redis_backed_get(smodule, redis_db, mem_a, key, sclock, redis_ok),
                b |-> mem_get(smodule, mem_b, key, sclock),
                redis_ok |-> redis_ok]
    /\ mem_a' = IF ~redis_ok /\ smodule = "cache_ttl" /\ Lookup(mem_a, key).has
                   /\ sclock > Lookup(mem_a, key).exp
                THEN [k \in DOMAIN mem_a \ {key} |-> mem_a[k]] ELSE mem_a
    /\ mem_b' = IF smodule = "cache_ttl" /\ Lookup(mem_b, key).has
                   /\ sclock > Lookup(mem_b, key).exp
                THEN [k \in DOMAIN mem_b \ {key} |-> mem_b[k]] ELSE mem_b
    /\ UNCHANGED <<smodule, sclock, redis_db>>
    /\ UNCHANGED exceptStore

NextStore ==
    \/ StoreTick
    \/ \E key \in StoreKeys, ttl \in StoreTtls, value \in StoreValues, ok \in BOOLEAN :
          StoreSetex(key, ttl, value, ok)
    \/ \E key \in StoreKeys, ok \in BOOLEAN : StoreGet(key, ok)

SpecStore == InitStore /\ [][NextStore]_vars

\* C20: whatever was set and however time passed, a get returns the same in the
\* process with the distributed store (failing or not) and in the process on
\* the in-process map.
C20_BackendsAgree ==
    sgot # <<>> => sgot.a = sgot.b

(***************************************************************************)
(* The counters of cache_ttl: _hits, _miss, _sets are module globals that  *)
(* get and setex bump with "+= 1", a read of the global followed by a      *)
(* write, with no lock; the callers include the adapters' pool threads.    *)
(***************************************************************************)
MaxWorkerOps == 3

CounterOps == {"setex", "get_hit", "get_miss"}

counter_of(op) ==
    IF op = "setex" THEN c_sets ELSE IF op = "get_hit" THEN c_hits ELSE c_miss

InitCounters ==
    /\ CountIdle
    /\ CacheIdle
    /\ ClientIdle
    /\ AdapterIdle
    /\ NovigIdle
    /\ GroupIdle
    /\ EnrichIdle
    /\ StoreIdle

\* a thread enters setex or get and reads the counter it is about to bump: _sets
\* on entry to setex; in get, _hits or _miss once the lookup (in the store, or in
\* the map after the store raised) has found the key or not
CounterRead(th, op) ==
    /\ wpc[th] = "idle"
    /\ wstarted < MaxWorkerOps
    /\ wstarted' = wstarted + 1
    /\ wpc' = [wpc EXCEPT ![th] = "read"]
    /\ wop' = [wop EXCEPT ![th] = op]
    /\ wreg' = [wreg EXCEPT ![th] = counter_of(op)]
    /\ UNCHANGED <<c_hits, c_miss, c_sets, gets_done, setex_done>>
    /\ UNCHANGED exceptCount

\* the thread writes the value it read plus one and completes the call: the
\* rest of setex (the write, with its fallback when the store raises) and of
\* get (the return) touches no counter
CounterWrite(th) ==
    /\ wpc[th] = "read"
    /\ wpc' = [wpc EXCEPT ![th] = "idle"]
    /\ c_sets' = IF wop[th] = "setex" THEN wreg[th] + 1 ELSE c_sets
    /\ c_hits' = IF wop[th] = "get_hit" THEN wreg[th] + 1 ELSE c_hits
    /\ c_miss' = IF wop[th] = "get_miss" THEN wreg[th] + 1 ELSE c_miss
    /\ setex_done' = IF wop[th] = "setex" THEN setex_done + 1 ELSE setex_done
    /\ gets_done' = IF wop[th] = "setex" THEN gets_done ELSE gets_done + 1
    /\ UNCHANGED <<wop, wreg, wstarted>>
    /\ UNCHANGED exceptCount

NextCounters ==
    \/ \E th \in Threads, op \in CounterOps : CounterRead(th, op)
    \/ \E th \in Threads : CounterWrite(th)

SpecCounters == InitCounters /\ [][NextCounters]_vars

\* C26: whenever no call is in progress, hits + miss is the number of completed
\* gets and sets the number of completed setex calls, the calls of concurrent
\* pool threads included.
C26_CountersExact ==
    (\A th \in Threads : wpc[th] = "idle") =>
        /\ c_hits + c_miss = gets_done
        /\ c_sets = setex_done

(***************************************************************************)
(* Properties of the league adapters                                       *)
(***************************************************************************)
Count(s, p) == Cardinality({j \in 1 .. Len(s) : s[j] = p})
Elems(s) == {s[j] : j \in 1 .. Len(s)}
SameBag(s, t) ==
    /\ Len(s) = Len(t)
    /\ \A p \in Elems(s) \cup Elems(t) : Count(s, p) = Count(t, p)
Keys(s) == [j \in 1 .. Len(s) |-> SortKey(s[j])]
KeyEq(a, b) == ~KeyLess(a, b) /\ ~KeyLess(b, a)

\* what the task of event i hands back when it succeeds
PropsOfEvent(i) == TaskResult(i, aleague, events[i]).props
Succeeds(i) == TaskResult(i, aleague, events[i]).ok

\* the Props of the successful tasks, in the order the events were submitted
RECURSIVE InSubmissionOrder(_)
InSubmissionOrder(i) ==
    IF i > Len(events) THEN <<>>
    ELSE (IF Succeeds(i) THEN PropsOfEvent(i) ELSE <<>>) \o InSubmissionOrder(i + 1)

\* C3: in the NFL, NCAAF and UFC adapters a failing event task never makes the
\* call raise (only the events request does) or leaves the pool with no step to
\* take before it returns, and the returned list holds every Prop of every task
\* that succeeded, and nothing of a task that failed.
C3_FailureIsolation ==
    /\ apc = "raised" => \A i \in DOMAIN task : task[i] = "pending"
    /\ apc = "pool" =>
          \/ collected = DOMAIN task
          \/ \E i \in DOMAIN task \ collected : task[i] \in {"running", "ok", "failed"}
          \/ \E i \in DOMAIN task : task[i] = "pending" /\ Cardinality(Running) < MAX_WORKERS
    /\ (apc = "done" /\ aleague \in PoolLeagues) =>
          /\ \A i \in DOMAIN task : Succeeds(i) =>
                \A p \in Elems(PropsOfEvent(i)) :
                    Count(aresult, p) = Count(PropsOfEvent(i), p)
          /\ \A p \in Elems(aresult) : Succeeds(p.eid)

\* a call has returned although the first task failed, with the Props of the
\* second
C3_Witness ==
    /\ apc = "done"
    /\ aleague \in PoolLeagues
    /\ Len(events) = 2
    /\ task[1] = "failed"
    /\ task[2] = "ok"
    /\ aresult # <<>>
    /\ aresult = PropsOfEvent(2)

\* C8: the list every adapter (MLB, NFL, NCAAF, UFC) returns is sorted in
\* descending order of fair over probability, undefined counting as 0.
C8_SortedDescending ==
    apc = "done" =>
        \A j \in 1 .. Len(aresult) : \A k \in 1 .. Len(aresult) :
            j < k => ~KeyLess(aresult[j], aresult[k])

\* C9 as stated: the returned list is the one of the run whose tasks complete in
\* submission order, whatever the order they did complete in.
C9_Original ==
    (apc = "done" /\ aleague \in PoolLeagues) =>
        aresult = IF aleague = "ufc" THEN InSubmissionOrder(1)
                  ELSE SortDesc(InSubmissionOrder(1))

\* C9: for every completion order the returned list holds the same Props the same
\* number of times, and in the NFL and NCAAF adapters the same sequence of fair
\* over probabilities; only the order of Props of equal fair over probability
\* (in the UFC adapter, which does not sort: of the Props of different events)
\* follows the order of completion.
C9_SameBagSameKeys ==
    (apc = "done" /\ aleague \in PoolLeagues) =>
        /\ SameBag(aresult, InSubmissionOrder(1))
        /\ aleague \in {"nfl", "ncaaf"} =>
              Keys(aresult) = Keys(SortDesc(InSubmissionOrder(1)))

\* an NFL call whose two tasks tie on the fair over probability has returned the
\* Props of the second event first
C9_Witness ==
    /\ apc = "done"
    /\ aleague = "nfl"
    /\ Len(aresult) = 2
    /\ aresult[1].eid = 2
    /\ aresult[2].eid = 1
    /\ KeyEq(aresult[1], aresult[2])
    /\ SortKey(aresult[1]).n # 0

\* C10: the returned list holds, for every event, at most one Prop per
\* (player or fighter, stat, line), however many bookmakers quote it.
C10_OnePropPerKey ==
    apc = "done" =>
        \A j \in 1 .. Len(aresult) : \A k \in 1 .. Len(aresult) :
            (/\ j # k
             /\ aresult[j].eid = aresult[k].eid
             /\ aresult[j].player = aresult[k].player
             /\ aresult[j].stat = aresult[k].stat) => aresult[j].line # aresult[k].line

\* the pairing keys of event i that the upstream prices on one side only
OneSidedKeys(i) ==
    LET sb == pair_outcomes(Payload(events[i]).books, StatKey(aleague))
    IN  IF Payload(events[i]).err \/ ~sb.ok THEN {}
        ELSE {sb.pairs[j] : j \in {x \in 1 .. Len(sb.pairs) :
                                      sb.pairs[x].over.has # sb.pairs[x].under.has}}

SameTo4(p, q) == p.def /\ q.def /\ Round4(p.n, p.d) = Round4(q.n, q.d)

\* C11: a pairing key priced on one side only gives a Prop whose fair probability
\* of that side is the side's implied probability (0.5455 to four decimals for
\* -120), whose other fair probability is undefined and whose shop holds the
\* priced side only.
C11_OneSidedFair ==
    apc = "done" =>
        \A i \in 1 .. Len(events) : \A pr \in OneSidedKeys(i) :
            \E p \in Elems(aresult) :
                /\ p.eid = i
                /\ p.line = pr.k[3]
                /\ p.over.has = pr.over.has
                /\ p.under.has = pr.under.has
                /\ pr.over.has =>
                      SameTo4(p.fo, american_to_prob(pr.over.price)) /\ ~p.fu.def
                /\ pr.under.has =>
                      SameTo4(p.fu, american_to_prob(pr.under.price)) /\ ~p.fo.def

\* a payload without its malformed outcomes (a price of 0, a price that is no
\* number)
WellFormed(out) == out.pk = "int" /\ out.price # 0
Clean(pay) ==
    [err |-> pay.err,
     books |-> [b \in 1 .. Len(pay.books) |->
                  [pay.books[b] EXCEPT !.outs = SelectSeq(@, WellFormed)]]]
HasMalformed(pay) ==
    \E b \in 1 .. Len(pay.books) : \E o \in 1 .. Len(pay.books[b].outs) :
        ~WellFormed(pay.books[b].outs[o])

\* C13: a malformed bookmaker outcome (price 0, non-numeric price) does not fail
\* the event task of a pool adapter, and every Prop built from the well-formed
\* outcomes of the event is returned.
C13_MalformedSkipped ==
    (apc = "done" /\ aleague \in PoolLeagues) =>
        \A i \in 1 .. Len(events) :
            (~Payload(events[i]).err /\ HasMalformed(Payload(events[i]))) =>
                /\ task[i] = "ok"
                /\ LET clean == Clean(Payload(events[i]))
                       expected == IF aleague = "ufc" THEN process_event(i, clean)
                                   ELSE one_event(i, aleague, clean)
                   IN  \A p \in Elems(expected.props) : p \in Elems(aresult)

\* C14: with the API credentials missing a league adapter call ends in a
\* configuration error, with no event task started, and never in a normal
\* (empty or partial) result.
C14_ConfigErrorSurfaced ==
    ~akey =>
        /\ apc \in {"start", "config_error"}
        /\ \A i \in DOMAIN task : task[i] = "pending"

IdentNames(p) == {Strip(p.away_team), Strip(p.home_team), p.fighter, p.opponent} \ {""}
IdentLabels(p) ==
    (IF p.matchup # <<>> THEN {p.matchup} ELSE {})
    \cup (IF Strip(p.away_team) # "" /\ Strip(p.home_team) # ""
          THEN {Fmt(p.away_team, p.home_team)} ELSE {})
SharesIdentity(p, q) ==
    \/ IdentNames(p) \cap IdentNames(q) # {}
    \/ IdentLabels(p) \cap IdentLabels(q) # {}

BucketOf(out, p) ==
    CHOOSE x \in 1 .. Len(out) : \E y \in 1 .. Len(out[x].props) : out[x].props[y] = p

\* C16: two Props without an event id that share no identity value are put in
\* different buckets; unresolved Props never share a generic placeholder bucket.
C16_UnrelatedApart ==
    Len(ghist) > 0 =>
        \A i \in 1 .. Len(gprops) : \A j \in 1 .. Len(gprops) :
            (/\ gprops[i] # gprops[j]
             /\ gprops[i].event_id = ""
             /\ gprops[j].event_id = ""
             /\ ~SharesIdentity(gprops[i], gprops[j]))
            => BucketOf(gout, gprops[i]) # BucketOf(gout, gprops[j])

(***************************************************************************)
(* Properties of the enrichment                                            *)
(***************************************************************************)
\* C17: when the contextual provider raises or returns null for a Prop, the
\* enriched Prop carries no contextual probability: no default or fallback hit
\* rate stands in for it.
C17_NoFallbackRate ==
    (efn # "ready" /\ eprov.kind \in {"raise", "none"}) => ~eout.ctx_over.def

\* C18: after enrich_with_context_and_edge, when the Prop carries both a
\* contextual and a fair over probability (the adapter's, or recomputed from raw
\* prices), edge_over is (contextual - fair) x 100 (to the tenth it is stored at)
\* and edge_under its negation; otherwise both edges are undefined.
C18_EdgeFormula ==
    efn = "context_edge" =>
        IF eout.ctx_over.def /\ eout.fair_over.def
        THEN /\ eout.edge_over.def /\ eout.edge_under.def
             /\ eout.edge_over.t =
                   RoundDiv(eout.ctx_over.n * eout.fair_over.d - 10000 * eout.fair_over.n,
                            10 * eout.fair_over.d)
             /\ eout.edge_under.t = 0 - eout.edge_over.t
        ELSE ~eout.edge_over.def /\ ~eout.edge_under.def

\* C19: the pick is "OVER" if the attached edge_over is at least the threshold,
\* "UNDER" if the attached edge_under is, none otherwise, and none when the edges
\* are undefined.
C19_PickFromAttachedEdges ==
    efn = "context_edge" =>
        eout.pick =
            IF eout.edge_over.def /\ eout.edge_over.t * 10 >= edge_threshold_pp(emin)
            THEN "OVER"
            ELSE IF eout.edge_under.def
                    /\ eout.edge_under.t * 10 >= edge_threshold_pp(emin)
            THEN "UNDER"
            ELSE "none"

\* the first outcome of event i's payload priced on the side for the key of p
FirstSeen(i, p, side) ==
    LET flat == FlatOuts(Payload(events[i]).books, 1, 1)
        hits == {j \in 1 .. Len(flat) :
                    /\ flat[j].out.player = p.player
                    /\ flat[j].out.point = p.line
                    /\ Lower(flat[j].out.name) = side}
    IN  flat[CHOOSE j \in hits : \A x \in hits : j <= x]

\* C21: in a Prop the NFL and NCAAF adapters build from _pair_outcomes, the over
\* tick and the under tick come from the same bookmaker, and each side carries
\* the first price seen for it.
C21_SidesFromOneBook ==
    (apc = "done" /\ aleague \in {"nfl", "ncaaf"}) =>
        \A p \in Elems(aresult) :
            /\ (p.over.has /\ p.under.has) => p.over.book = p.under.book
            /\ p.over.has => p.over.price = FirstSeen(p.eid, p, "over").out.price
            /\ p.under.has => p.under.price = FirstSeen(p.eid, p, "under").out.price

\* C22: the backoff delay starts at BACKOFF_BASE_MS, doubles after every failed
\* attempt and never exceeds BACKOFF_MAX_MS; the wait after a failed attempt is
\* at least the delay current at that attempt, and after a 429 that carries a
\* Retry-After header it is at least the Retry-After value.
C22_BackoffAndRetryAfter ==
    /\ kpc = "loop" =>
          /\ delay_ms = Min(BACKOFF_BASE_MS * 2 ^ Len(sleeps), BACKOFF_MAX_MS)
          /\ delay_ms <= BACKOFF_MAX_MS
    /\ \A i \in 1 .. Len(sleeps) :
          /\ resps[i].kind # "ok"
          /\ sleeps[i] >= Min(BACKOFF_BASE_MS * 2 ^ (i - 1), BACKOFF_MAX_MS)
          /\ (resps[i].kind = "r429" /\ resps[i].ra # "none") =>
                sleeps[i] >= resps[i].ra_ms

\* C23: every writer of the slot-cache entry ("props", league), the miss path,
\* the forced refresh and the prewarm, stores the result of the same derivation:
\* the values stored for one league are all fetched with one lookahead window.
C23_OneDerivation ==
    \A i, j \in 1 .. Len(hist) :
        (hist[i].stored /\ hist[j].stored /\ hist[i].league = hist[j].league) =>
            hist[i].ret.ha = hist[j].ret.ha

\* C24: in a team league a Prop that carries its own away and home team fields
\* is put under the label made of those fields, whatever the games index gives
\* for its event id and whatever its matchup field holds.
C24_OwnTeamsDecide ==
    (Len(ghist) > 0 /\ gleague # "ufc") =>
        \A i \in 1 .. Len(gprops) :
            (Strip(gprops[i].away_team) # "" /\ Strip(gprops[i].home_team) # "") =>
                gout[BucketOf(gout, gprops[i])].label
                    = Fmt(gprops[i].away_team, gprops[i].home_team)

\* C25: in the UFC league a Prop built by the UFC adapter is put under the label
\* "{a} vs {b}" that equals the matchup string the adapter gave it; in the other
\* leagues a label has the form "{away} @ {home}".
C25_UfcLabelIsMatchup ==
    Len(ghist) > 0 =>
        \A i \in 1 .. Len(gprops) :
            LET p == gprops[i]
                label == gout[BucketOf(gout, p)].label
            IN  /\ (gleague = "ufc" /\ p.matchup # <<>> /\ p.player = Text(p.matchup))
                      => Text(label) = Text(p.matchup)
                /\ (gleague # "ufc" /\ p.player # Text(<<"F3", "vs", "F4">>))
                      => label[2] = "@"

\* C27: two get_or_set_slot calls for one key that overlap in time on an empty
\* cache run the fetcher at most once between them and return the same value.
C27_SingleFetch ==
    (/\ Len(hist) = 2
     /\ ~hist[1].forced /\ ~hist[2].forced
     /\ hist[1].ok /\ hist[2].ok
     /\ hist[1].key = hist[2].key
     /\ hist[2].t0 <= hist[1].t1 /\ hist[1].t0 <= hist[2].t1) =>
        /\ ~(hist[1].fetched /\ hist[2].fetched)
        /\ hist[1].ret = hist[2].ret

\* the i-th call of the history missed and its fetch obtained no upstream data:
\* the fetcher raised, or came back with the empty list of a failed request or
\* of missing credentials
FailedMiss(i) ==
    /\ ~hist[i].forced /\ hist[i].fetched
    /\ ~hist[i].ok \/ hist[i].ret.empty

\* C28: a miss whose fetch obtained no upstream data stores no entry, and the
\* next non-forced call for the key in the same day-part runs the fetcher again
\* (or is served what a concurrent caller stored, never the failed result).
C28_FailureNotCached ==
    /\ \A i \in 1 .. Len(hist) : FailedMiss(i) => ~hist[i].stored
    /\ (/\ Len(hist) = 2
        /\ FailedMiss(1)
        /\ ~hist[2].forced
        /\ hist[1].league = hist[2].league
        /\ hist[1].t1 <= hist[2].t0
        /\ SameDayPart(hist[1].t0, hist[2].t0) /\ SameDate(hist[1].t0, hist[2].t0))
          => (hist[2].fetched \/ hist[2].ret # hist[1].ret)

\* C29: an entry that get_or_set_slot stored during one day-part is never
\* returned by a get_or_set_slot call made in another day-part: a call that is
\* served from the cache the entry of the preceding call's miss was stored in
\* the day-part of this call.
C29_NoCrossPartReads ==
    (/\ Len(hist) = 2
     /\ ~hist[1].forced /\ hist[1].fetched /\ hist[1].stored
     /\ ~hist[2].forced /\ ~hist[2].fetched
     /\ hist[2].key = hist[1].key
     /\ hist[2].ret = hist[1].ret
     /\ hist[1].t1 <= hist[2].t0) =>
        SameDayPart(hist[1].t1, hist[2].t0)

\* C30: enrich_with_context_and_edge leaves the row it is given as it was, its
\* nested "fair" values included, and a further run over the row gives the
\* output of the first.
C30_InputUntouched ==
    [][efn' = "context_edge" =>
          /\ eprop' = eprop
          /\ efn = "context_edge" => eout' = eout]_vars

====
